---------------------------- MODULE Spec2Model ----------------------------
(***************************************************************************)
(* commentstats: the scan of a commit history into a chunked archive       *)
(* (src/src/scan.rs), and the parallel load of that archive into a series  *)
(* of points (src/src/render.rs, src/src/models.rs, src/src/progress.rs).  *)
(***************************************************************************)
EXTENDS Integers, Sequences, FiniteSets, TLC

(***************************************************************************)
(* The state.                                                              *)
(***************************************************************************)
VARIABLES
    repo,            \* the repository: the number of commits of its history
                     \* and the commits, which repeat with the pattern's period
    pc,              \* where run is
    dir,             \* the temporary directory: file name -> file
    total,           \* the total the progress printer waits for
    progress,        \* the shared progress counter
    poller,          \* the progress printer thread
    task_pc,         \* chunk index -> where the chunk's task is
    chunk_pos,       \* chunk index -> commits commit_stats has returned for
    previous_entry,  \* chunk index -> previous_entry of the task
    previous_tree,   \* chunk index -> previous_tree of the task
    files,           \* the sorted paths of the directory
    zip_file,        \* stats.stats: None until it is created
    result,          \* what run, or load_data, returned
    input,           \* load_data: the archive read, a sequence of zip entries
    filter,          \* load_data: the set of languages counted
    nodes,           \* load_data: the jobs the parallel range is split into
    full,            \* load_data: the flag a failed job stops the others with
    data,            \* load_data: the result of the reduction
    hasher,          \* the order in which the run's HashMaps yield their files
    call             \* a function stepped on its own: commit_stats delta by
                     \* delta, or par_chunks chunk by chunk


(***************************************************************************)
(* Program constants (scan.rs).                                            *)
(***************************************************************************)
CHUNK_AMOUNT == 1000
MIN_CHUNK_SIZE == 1000

(***************************************************************************)
(* Bounds of the model.                                                    *)
(***************************************************************************)
\* Short histories have up to this many commits; their commits repeat a
\* pattern of one or two commits, every pair of adjacent commits occurring.
MaxShort == 2
\* Long histories have MIN_CHUNK_SIZE + 1 .. MIN_CHUNK_SIZE + MaxExtra commits,
\* so that the scan splits them into two chunks.
MaxExtra == 1

None == [none |-> TRUE]
Some(v) == [some |-> v]
IsSome(o) == "some" \in DOMAIN o
Unwrap(o) == o.some

\* A Result: Ok(v) or an error.
Ok(v) == [ok |-> v]
Err == [err |-> TRUE]
IsOk(r) == "ok" \in DOMAIN r
IsErr(r) == "err" \in DOMAIN r

Max(a, b) == IF a >= b THEN a ELSE b
Min(a, b) == IF a <= b THEN a ELSE b

RECURSIVE SumSeq(_)
SumSeq(s) == IF s = <<>> THEN 0 ELSE Head(s) + SumSeq(Tail(s))

RECURSIVE Flatten(_)
Flatten(ss) == IF ss = <<>> THEN <<>> ELSE Head(ss) \o Flatten(Tail(ss))

Range(f) == {f[x] : x \in DOMAIN f}

(***************************************************************************)
(* The repository: paths, blobs and the classifier (tokei), which the      *)
(* program uses as a function of the file name and the blob's content.     *)
(***************************************************************************)
\* The paths of the modelled repositories, in the byte order in which a tree
\* diff lists them.
PathSeq == <<"a.py", "n.txt", "src/b.rs">>
Paths == Range(PathSeq)

\* TreeEntry::name(): the last component of the path.
Name(path) == IF path = "src/b.rs" THEN "b.rs" ELSE path

Languages == {"Python", "Rust", "Markdown"}

\* LanguageType::from_path: decided by the file name alone.
LanguageFromPath(name) ==
    CASE name = "a.py" -> Some("Python")
      [] name = "b.rs" -> Some("Rust")
      [] OTHER -> None

\* LanguageType::parse_from_slice: the statistics of a blob, with the nested
\* statistics of embedded languages in blobs.
ParseFromSlice(lang, content) ==
    IF lang = "Python"
    THEN [blanks |-> 0, code |-> 2, comments |-> content, blobs |-> <<>>]
    ELSE [blanks |-> 1, code |-> 3, comments |-> 0,
          blobs |-> IF content = 1 THEN <<>>
                    ELSE <<[blanks |-> 0, code |-> 1, comments |-> content]>>]

\* CodeStats::summarise: the nested statistics are added to the totals.
Summarise(stats) ==
    [blanks |-> stats.blanks + SumSeq([i \in DOMAIN stats.blobs |-> stats.blobs[i].blanks]),
     code |-> stats.code + SumSeq([i \in DOMAIN stats.blobs |-> stats.blobs[i].code]),
     comments |-> stats.comments
                    + SumSeq([i \in DOMAIN stats.blobs |-> stats.blobs[i].comments]),
     blobs |-> <<>>]

\* A tree maps the paths of its items to the items: a blob with its content,
\* or a submodule (an item of kind Commit). The file without a recognized
\* language has one content in the short histories: its content is never
\* read.
Blob(content) == [kind |-> "Blob", id |-> content]
Submodule == [kind |-> "Commit", id |-> 1]
Items(path) ==
    CASE path = "a.py" -> {Blob(1), Blob(2), Submodule}
      [] path = "n.txt" -> {Blob(1)}
      [] OTHER -> {Blob(1), Blob(2)}
Trees == UNION {{t \in [ps -> {Blob(1), Blob(2), Submodule}] :
                   \A p \in ps : t[p] \in Items(p)} : ps \in SUBSET Paths}

\* Commit::time(): seconds since the epoch and the offset in minutes.
Times == {[seconds |-> 86399, offset_minutes |-> 0],
          [seconds |-> 86399, offset_minutes |-> 60]}

Commits == [tree : Trees, time : Times]

(***************************************************************************)
(* Functions as maps (HashMap<PathBuf, EntryFile>).                         *)
(***************************************************************************)
EmptyMap == <<>>
\* MapInsert storing nothing.
MapInsertNothing(m, k, v) == m
\* MapInsert forgetting every other key.
MapInsertOnly(m, k, v) == [x \in {k} |-> v]
MapInsert(m, k, v) == [x \in (DOMAIN m) \cup {k} |-> IF x = k THEN v ELSE m[x]]
\* MapRemove leaving the key in place.
MapRemoveKeep(m, k) == m
\* MapRemove failing for a key the map does not have.
MapRemoveStrict(m, k) == IF k \in DOMAIN m THEN [x \in (DOMAIN m) \ {k} |-> m[x]]
                         ELSE [panic |-> TRUE]
MapRemove(m, k) == [x \in (DOMAIN m) \ {k} |-> m[x]]
MapGet(m, k) == IF k \in DOMAIN m THEN Some(m[k]) ELSE None

(***************************************************************************)
(* scan.rs: commit_stats.                                                  *)
(***************************************************************************)
\* Repository::diff_tree_to_tree(previous_tree, Some(tree), None), the diff
\* of libgit2 with its default options: without rename detection (no
\* find_similar) the deltas are Added, Deleted and Modified only, in path
\* order. The options are None, so include_typechange is not set, and a path
\* whose item changes its kind (a blob that becomes a submodule) has no
\* Typechange delta, as the diff of the git command line has, but a Deleted
\* delta followed by an Added one.
\* DeltaOf reporting an item that changes its kind as one Modified delta.
DeltaOfNoSplit(old, new, path) ==
    LET inOld == IsSome(old) /\ path \in DOMAIN Unwrap(old)
        inNew == path \in DOMAIN new
    IN  IF inOld /\ ~inNew
        THEN <<[status |-> "Deleted", old_file |-> path, new_file |-> path]>>
        ELSE IF ~inOld /\ inNew
        THEN <<[status |-> "Added", old_file |-> path, new_file |-> path]>>
        ELSE IF inOld /\ inNew /\ Unwrap(old)[path] # new[path]
        THEN <<[status |-> "Modified", old_file |-> path, new_file |-> path]>>
        ELSE <<>>
DeltaOf(old, new, path) ==
    LET inOld == IsSome(old) /\ path \in DOMAIN Unwrap(old)
        inNew == path \in DOMAIN new
    IN  IF inOld /\ ~inNew
        THEN <<[status |-> "Deleted", old_file |-> path, new_file |-> path]>>
        ELSE IF ~inOld /\ inNew
        THEN <<[status |-> "Added", old_file |-> path, new_file |-> path]>>
        ELSE IF inOld /\ inNew /\ Unwrap(old)[path].kind # new[path].kind
        THEN <<[status |-> "Deleted", old_file |-> path, new_file |-> path],
               [status |-> "Added", old_file |-> path, new_file |-> path]>>
        ELSE IF inOld /\ inNew /\ Unwrap(old)[path] # new[path]
        THEN <<[status |-> "Modified", old_file |-> path, new_file |-> path]>>
        ELSE <<>>

\* DiffTreeToTree with no deltas when there is no old tree.
DiffTreeToTreeNoBase(old, new) ==
    IF IsSome(old)
    THEN Flatten([i \in DOMAIN PathSeq |-> DeltaOf(old, new, PathSeq[i])])
    ELSE <<>>

\* The deltas of all paths, in path order.
DiffTreeToTree(old, new) ==
    Flatten([i \in DOMAIN PathSeq |-> DeltaOf(old, new, PathSeq[i])])

\* One arm of the match on delta.status(): the files after the delta, or a
\* panic (an unwrap of None, or unreachable!()).
Panic == [panic |-> TRUE]
\* IsPanic taking every panic for a value.
IsPanicNever(r) == FALSE
IsPanic(r) == "panic" \in DOMAIN r

\* ApplyDelta leaving the record of a Deleted delta in place.
ApplyDeltaKeepDeleted(entry_files, delta, tree) ==
    CASE delta.status \in {"Added", "Modified"} ->
            IF delta.new_file \notin DOMAIN tree
            THEN Panic
            ELSE LET item == tree[delta.new_file]
                     lang == LanguageFromPath(Name(delta.new_file))
                 IN  IF item.kind = "Blob" /\ IsSome(lang)
                     THEN MapInsert(entry_files, delta.new_file,
                            [language |-> Unwrap(lang),
                             statistics |->
                                Summarise(ParseFromSlice(Unwrap(lang), item.id))])
                     ELSE entry_files
      [] delta.status = "Deleted" -> entry_files
      [] delta.status = "Renamed" ->
            IF delta.old_file \in DOMAIN entry_files
            THEN MapInsert(MapRemove(entry_files, delta.old_file), delta.new_file,
                           entry_files[delta.old_file])
            ELSE Panic
      [] delta.status = "Copied" ->
            IF delta.old_file \in DOMAIN entry_files
            THEN MapInsert(entry_files, delta.new_file, entry_files[delta.old_file])
            ELSE Panic
      [] OTHER -> Panic

\* One arm of the match on delta.status() (lines 155-207).
ApplyDelta(entry_files, delta, tree) ==
    CASE delta.status \in {"Added", "Modified"} ->
            IF delta.new_file \notin DOMAIN tree
            THEN Panic
            ELSE LET item == tree[delta.new_file]
                     lang == LanguageFromPath(Name(delta.new_file))
                 IN  IF item.kind = "Blob" /\ IsSome(lang)
                     THEN MapInsert(entry_files, delta.new_file,
                            [language |-> Unwrap(lang),
                             statistics |->
                                Summarise(ParseFromSlice(Unwrap(lang), item.id))])
                     ELSE entry_files
      [] delta.status = "Deleted" -> MapRemove(entry_files, delta.old_file)
      [] delta.status = "Renamed" ->
            IF delta.old_file \in DOMAIN entry_files
            THEN MapInsert(MapRemove(entry_files, delta.old_file), delta.new_file,
                           entry_files[delta.old_file])
            ELSE Panic
      [] delta.status = "Copied" ->
            IF delta.old_file \in DOMAIN entry_files
            THEN MapInsert(entry_files, delta.new_file, entry_files[delta.old_file])
            ELSE Panic
      [] OTHER -> Panic

RECURSIVE ApplyDeltas(_, _, _)
ApplyDeltas(entry_files, deltas, tree) ==
    IF deltas = <<>> \/ IsPanic(entry_files)
    THEN entry_files
    ELSE ApplyDeltas(ApplyDelta(entry_files, Head(deltas), tree), Tail(deltas), tree)

\* FixedOffset::east(offset_minutes * 60).from_utc_datetime(seconds).
CommitTime(time) == [utc |-> time.seconds, offset |-> time.offset_minutes * 60]

\* commit_stats(repo, oid, prev_entry, prev_tree), for the commit
\* itself: the entry and the tree, or a panic.
commit_stats(commit, prev_entry, prev_tree) ==
    LET tree == commit.tree
        diff == DiffTreeToTree(prev_tree, tree)
        start == IF IsSome(prev_entry) THEN Unwrap(prev_entry).files
                 ELSE EmptyMap
        entry_files == ApplyDeltas(start, diff, tree)
    IN  IF IsPanic(entry_files)
        THEN Panic
        ELSE [entry |-> [timestamp |-> CommitTime(commit.time), files |-> entry_files],
              tree |-> tree]

(***************************************************************************)
(* The serialized form (bincode through serde, compressed by zstd). A file *)
(* is a stream of frames, one per serialized value; a frame is the         *)
(* sequence of the integers and strings the value is written as.           *)
(***************************************************************************)
\* The variant index a language is serialized as.
LangSeq == <<"Markdown", "Python", "Rust">>
LangIndex(lang) == CHOOSE i \in DOMAIN LangSeq : LangSeq[i] = lang

\* A u64.
SerializeU64(n) == <<n>>
DeserializeU64(frame) ==
    IF Len(frame) >= 1 /\ frame[1] \in Nat THEN Some(frame[1]) ELSE None

\* EntryFile { language, statistics { blanks, code, comments, blobs } }.
SerializeFile(path, f) ==
    <<path, LangIndex(f.language), f.statistics.blanks, f.statistics.code,
      f.statistics.comments, Len(f.statistics.blobs)>>

\* The orders in which a HashMap may yield its files: the order depends on
\* the keys of the map's hasher, which are drawn at random when the map is
\* made. Two orders stand for all of them.
Reverse(seq) == [i \in DOMAIN seq |-> seq[Len(seq) + 1 - i]]
Hashers == {PathSeq, Reverse(PathSeq)}

\* Entry { timestamp, files }: the timestamp as its local time and offset (the
\* RFC 3339 text of chrono's serde form), then the length of the map and its
\* files, in the order the map yields them.
SerializeEntry(entry, order) ==
    <<entry.timestamp.utc + entry.timestamp.offset, entry.timestamp.offset,
      Cardinality(DOMAIN entry.files)>>
    \o Flatten([i \in DOMAIN order |->
                  IF order[i] \in DOMAIN entry.files
                  THEN SerializeFile(order[i], entry.files[order[i]])
                  ELSE <<>>])

\* The k-th serialized file of a frame, or None when it is malformed.
DeserializeFile(frame, k) ==
    LET at == 3 + (k - 1) * 6
    IN  IF /\ Len(frame) >= at + 6
           /\ frame[at + 1] \in Paths
           /\ frame[at + 2] \in DOMAIN LangSeq
           /\ \A j \in 3..6 : frame[at + j] \in Nat
           /\ frame[at + 6] = 0
        THEN Some([path |-> frame[at + 1],
                   file |-> [language |-> LangSeq[frame[at + 2]],
                             statistics |-> [blanks |-> frame[at + 3],
                                             code |-> frame[at + 4],
                                             comments |-> frame[at + 5],
                                             blobs |-> <<>>]]])
        ELSE None

\* bincode's deserialize_from::<_, Entry>: the entry, or None on a decode
\* error. A later file of the same path replaces an earlier one.
DeserializeEntry(frame) ==
    IF ~(Len(frame) >= 3 /\ \A j \in 1..3 : frame[j] \in Int) \/ frame[3] < 0
    THEN None
    ELSE LET n == frame[3]
             fs == [k \in 1..n |-> DeserializeFile(frame, k)]
         IN  IF \E k \in 1..n : ~IsSome(fs[k])
             THEN None
             ELSE Some([timestamp |-> [utc |-> frame[1] - frame[2],
                                       offset |-> frame[2]],
                        files |-> [p \in {Unwrap(fs[k]).path : k \in 1..n} |->
                                     LET last == CHOOSE k \in 1..n :
                                                   /\ Unwrap(fs[k]).path = p
                                                   /\ \A j \in (k + 1)..n :
                                                        Unwrap(fs[j]).path # p
                                     IN  Unwrap(fs[last]).file]])

\* A file written through a ZstdEncoder: the frames written so far, and
\* whether finish() has ended the stream.
NewZstdFile == [frames |-> <<>>, finished |-> FALSE]
SerializeInto(file, frame) == [file EXCEPT !.frames = Append(@, frame)]
Finish(file) == [file EXCEPT !.finished = TRUE]

(***************************************************************************)
(* File names and their order.                                             *)
(***************************************************************************)
\* The decimal digits of n, as character codes.
RECURSIVE Digits(_)
Digits(n) == IF n < 10 THEN <<48 + n>> ELSE Append(Digits(n \div 10), 48 + (n % 10))

\* {:03}: at least three digits, padded with zeros on the left.
Pad3(ds) == IF Len(ds) >= 3 THEN ds ELSE [i \in 1..(3 - Len(ds)) |-> 48] \o ds

\* "info" and format!("stats-{:03}", i), as character codes.
InfoName == <<105, 110, 102, 111>>
StatsName(i) == <<115, 116, 97, 116, 115, 45>> \o Pad3(Digits(i))

\* The order of the sort of the paths of one directory: the byte order of the
\* file names.
LexLess(a, b) ==
    \E i \in 1..(Min(Len(a), Len(b)) + 1) :
        /\ \A j \in 1..(i - 1) : a[j] = b[j]
        /\ IF i <= Len(a) /\ i <= Len(b) THEN a[i] < b[i]
           ELSE i > Len(a) /\ i <= Len(b)

\* SortNames leaving the paths as read_dir yields them.
SortNamesKeep(names) == names

\* files.sort(): the paths in ascending order.
SortNames(names) == SortSeq(names, LexLess)

(***************************************************************************)
(* scan.rs: run, the chunks.                                               *)
(***************************************************************************)
\* MIN_CHUNK_SIZE.max(oids.len() / CHUNK_AMOUNT)
\* ChunkSize without the minimum of MIN_CHUNK_SIZE.
ChunkSizeNoMin(len) == Max(1, len \div CHUNK_AMOUNT)
ChunkSize(len) == Max(MIN_CHUNK_SIZE, len \div CHUNK_AMOUNT)

\* oids.par_chunks(chunk_size).enumerate(): the number of chunks, and the
\* first commit and the length of chunk i (commits are numbered from 1).
NumChunks(len, chunk_size) == (len + chunk_size - 1) \div chunk_size
ChunkStart(i, chunk_size) == i * chunk_size + 1
ChunkLen(len, i, chunk_size) == Min(chunk_size, len - i * chunk_size)

\* ChunkCount taking the chunk size for the length of the chunk.
ChunkCountFull(len, i, chunk_size) == chunk_size

\* chunk.len() as u64, the count written at the start of a chunk's file.
ChunkCount(len, i, chunk_size) == ChunkLen(len, i, chunk_size)

\* fetch_add losing the update.
fetch_add_lost(counter, n) == counter

\* progress.fetch_add(n, Ordering::Relaxed): the counter after it.
fetch_add(counter, n) == counter + n

scanVars == <<repo, task_pc, chunk_pos, previous_entry, previous_tree, dir, files,
              zip_file, hasher>>
loadVars == <<input, filter, nodes, full, data>>
vars == <<repo, pc, dir, total, progress, poller, task_pc, chunk_pos,
          previous_entry, previous_tree, files, zip_file, result, input, filter,
          nodes, full, data, hasher, call>>

\* The commit of an oid: oids are the positions 1 .. len of the history,
\* oldest first.
CommitAt(r, oid) == r.pattern[((oid - 1) % Len(r.pattern)) + 1]

\* The commits a long history repeats: every kind of delta occurs between
\* two adjacent commits, also across the first chunk boundary, and the file
\* without a recognized language is added, modified and deleted.
LongPattern ==
    <<[tree |-> ("a.py" :> Blob(2)) @@ ("src/b.rs" :> Blob(1)),
       time |-> [seconds |-> 86399, offset_minutes |-> 0]],
      [tree |-> ("n.txt" :> Blob(1)) @@ ("src/b.rs" :> Blob(2)),
       time |-> [seconds |-> 86399, offset_minutes |-> 60]],
      [tree |-> ("a.py" :> Blob(1)) @@ ("n.txt" :> Blob(2)),
       time |-> [seconds |-> 86399, offset_minutes |-> 60]]>>

ShortRepos ==
    UNION {[len : {n}, pattern : [1..Min(n, 2) -> Commits]] : n \in 1..MaxShort}
LongRepos ==
    [len : (MIN_CHUNK_SIZE + 1)..(MIN_CHUNK_SIZE + MaxExtra), pattern : {LongPattern}]
Repos == ShortRepos \cup LongRepos

chunk_size == ChunkSize(repo.len)
Chunks == 0..(NumChunks(repo.len, chunk_size) - 1)

\* The paths of the files of the directory, in the order of their creation by
\* one worker thread.
ReadDir(d) ==
    SelectSeq(<<InfoName>> \o [k \in 1..NumChunks(repo.len, chunk_size) |->
                                 StatsName(k - 1)],
              LAMBDA name : name \in DOMAIN d)

\* std::fs::read_dir: the order of the paths it yields is not specified. Two
\* orders stand for all of them.
Listings(d) == {ReadDir(d), Reverse(ReadDir(d))}

\* The oid the task of chunk i processes next.
NextOid(i) == ChunkStart(i, chunk_size) + chunk_pos[i]

\* The state when run is called, for the histories and the orders given.
InitOf(repos, hashers) ==
    /\ repo \in repos
    /\ pc = "start"
    /\ dir = EmptyMap
    /\ total = 0
    /\ progress = 0
    /\ poller = "none"
    /\ task_pc = [i \in Chunks |-> "pending"]
    /\ chunk_pos = [i \in Chunks |-> 0]
    /\ previous_entry = [i \in Chunks |-> None]
    /\ previous_tree = [i \in Chunks |-> None]
    /\ files = <<>>
    /\ call = None
    /\ hasher \in hashers
    /\ zip_file = None
    /\ result = None
    /\ input = <<>>
    /\ filter = {}
    /\ nodes = EmptyMap
    /\ full = FALSE
    /\ data = None

\* Every history of the bounds, its maps in either order.
Init == InitOf(Repos, Hashers)

(***************************************************************************)
(* run, up to the parallel scan (lines 35-74): the info file is written    *)
(* and the progress printer is started.                                    *)
(***************************************************************************)
Start ==
    /\ pc = "start"
    /\ dir' = MapInsert(dir, InfoName,
                        Finish(SerializeInto(NewZstdFile, SerializeU64(repo.len))))
    /\ total' = repo.len
    /\ progress' = 0
    /\ poller' = "polling"
    /\ pc' = "scan"
    /\ UNCHANGED <<repo, task_pc, chunk_pos, previous_entry, previous_tree, files,
                   zip_file, result, loadVars, call, hasher>>

\* The progress printer (lines 62-72): it ends once it reads a count of at
\* least the total, and otherwise shows the count and sleeps.
PollerTick ==
    /\ poller = "polling"
    /\ poller' = IF progress >= total THEN "finished" ELSE "polling"
    /\ UNCHANGED <<repo, pc, dir, total, progress, task_pc, chunk_pos,
                   previous_entry, previous_tree, files, zip_file, result, loadVars, call, hasher>>

(***************************************************************************)
(* The task of chunk i (lines 78-100).                                     *)
(***************************************************************************)
Failed == \E i \in Chunks : task_pc[i] = "failed"

\* Lines 79-85: the chunk's file is created and the chunk's length written.
\* A task may still start after another one failed, when it had not seen
\* the failure yet.
OpenChunk(i) ==
    /\ pc = "scan"
    /\ task_pc[i] = "pending"
    /\ dir' = MapInsert(dir, StatsName(i),
                        SerializeInto(NewZstdFile,
                                      SerializeU64(ChunkCount(repo.len, i, chunk_size))))
    /\ previous_entry' = [previous_entry EXCEPT ![i] = None]
    /\ previous_tree' = [previous_tree EXCEPT ![i] = None]
    /\ task_pc' = [task_pc EXCEPT ![i] = "running"]
    /\ UNCHANGED <<repo, pc, total, progress, poller, chunk_pos, files, zip_file,
                   result, loadVars, call, hasher>>

\* Lines 79-82 fail: the repository cannot be opened, or the file not created.
FailOpen(i) ==
    /\ pc = "scan"
    /\ task_pc[i] = "pending"
    /\ task_pc' = [task_pc EXCEPT ![i] = "failed"]
    /\ UNCHANGED <<repo, pc, dir, total, progress, poller, chunk_pos,
                   previous_entry, previous_tree, files, zip_file, result, loadVars, call, hasher>>

\* One round of the loop over the chunk's commits (lines 87-95): commit_stats,
\* which counts the commit, and the entry is written to the chunk's file.
StepCommit(i) ==
    /\ pc = "scan"
    /\ task_pc[i] = "running"
    /\ chunk_pos[i] < ChunkLen(repo.len, i, chunk_size)
    /\ LET r == commit_stats(CommitAt(repo, NextOid(i)), previous_entry[i],
                             previous_tree[i])
       IN  IF IsPanic(r)
           THEN /\ task_pc' = [task_pc EXCEPT ![i] = "failed"]
                /\ UNCHANGED <<dir, progress, chunk_pos, previous_entry, previous_tree>>
           ELSE /\ progress' = fetch_add(progress, 1)
                /\ dir' = [dir EXCEPT ![StatsName(i)] =
                             SerializeInto(@, SerializeEntry(r.entry, hasher))]
                /\ previous_entry' = [previous_entry EXCEPT ![i] = Some(r.entry)]
                /\ previous_tree' = [previous_tree EXCEPT ![i] = Some(r.tree)]
                /\ chunk_pos' = [chunk_pos EXCEPT ![i] = @ + 1]
                /\ UNCHANGED task_pc
    /\ UNCHANGED <<repo, pc, total, poller, files, zip_file, result, loadVars, call, hasher>>

\* commit_stats fails (the commit, its tree or a blob cannot be read): the
\* commit is not counted.
FailCommit(i) ==
    /\ pc = "scan"
    /\ task_pc[i] = "running"
    /\ chunk_pos[i] < ChunkLen(repo.len, i, chunk_size)
    /\ task_pc' = [task_pc EXCEPT ![i] = "failed"]
    /\ UNCHANGED <<repo, pc, dir, total, progress, poller, chunk_pos,
                   previous_entry, previous_tree, files, zip_file, result, loadVars, call, hasher>>

\* commit_stats returns and has counted the commit, and writing the entry
\* fails (line 91).
FailSerialize(i) ==
    /\ pc = "scan"
    /\ task_pc[i] = "running"
    /\ chunk_pos[i] < ChunkLen(repo.len, i, chunk_size)
    /\ ~IsPanic(commit_stats(CommitAt(repo, NextOid(i)), previous_entry[i],
                             previous_tree[i]))
    /\ progress' = fetch_add(progress, 1)
    /\ chunk_pos' = [chunk_pos EXCEPT ![i] = @ + 1]
    /\ task_pc' = [task_pc EXCEPT ![i] = "failed"]
    /\ UNCHANGED <<repo, pc, dir, total, poller, previous_entry, previous_tree,
                   files, zip_file, result, loadVars, call, hasher>>

\* Line 97: the chunk's file is finished.
FinishChunk(i) ==
    /\ pc = "scan"
    /\ task_pc[i] = "running"
    /\ chunk_pos[i] = ChunkLen(repo.len, i, chunk_size)
    /\ dir' = [dir EXCEPT ![StatsName(i)] = Finish(@)]
    /\ task_pc' = [task_pc EXCEPT ![i] = "done"]
    /\ UNCHANGED <<repo, pc, total, progress, poller, chunk_pos, previous_entry,
                   previous_tree, files, zip_file, result, loadVars, call, hasher>>

\* try_for_each: once a task has failed, the tasks not yet started are dropped.
SkipChunk(i) ==
    /\ pc = "scan"
    /\ task_pc[i] = "pending"
    /\ Failed
    /\ task_pc' = [task_pc EXCEPT ![i] = "skipped"]
    /\ UNCHANGED <<repo, pc, dir, total, progress, poller, chunk_pos,
                   previous_entry, previous_tree, files, zip_file, result, loadVars, call, hasher>>

(***************************************************************************)
(* run, after the parallel scan (lines 101-132).                           *)
(***************************************************************************)
\* Line 101: the error of a failed task is returned once every task has
\* stopped; the temporary directory is removed, the progress printer is
\* left running.
ScanFailed ==
    /\ pc = "scan"
    /\ Failed
    /\ \A i \in Chunks : task_pc[i] \in {"done", "failed", "skipped"}
    /\ pc' = "failed"
    /\ result' = Err
    /\ dir' = EmptyMap
    /\ UNCHANGED <<repo, total, progress, poller, task_pc, chunk_pos,
                   previous_entry, previous_tree, files, zip_file, loadVars, call, hasher>>

\* JoinPoller going on once no task runs any more, failed ones included.
JoinPollerAfterFailure ==
    /\ pc = "scan"
    /\ {i \in Chunks : task_pc[i] \in {"pending", "running"}} = {}
    /\ poller = "finished"
    /\ pc' = "save"
    /\ UNCHANGED <<repo, dir, total, progress, poller, task_pc, chunk_pos,
                   previous_entry, previous_tree, files, zip_file, result, loadVars, call, hasher>>

\* Lines 103-105: every task succeeded, and the progress printer is joined.
JoinPoller ==
    /\ pc = "scan"
    /\ {i \in Chunks : task_pc[i] # "done"} = {}
    /\ poller = "finished"
    /\ pc' = "save"
    /\ UNCHANGED <<repo, dir, total, progress, poller, task_pc, chunk_pos,
                   previous_entry, previous_tree, files, zip_file, result, loadVars, call, hasher>>

\* Lines 109-117: the directory is listed, the paths are sorted, and
\* stats.stats is created.
CreateZip ==
    /\ pc = "save"
    /\ \E listing \in Listings(dir) : files' = SortNames(listing)
    /\ zip_file' = Some([entries |-> <<>>, finished |-> FALSE])
    /\ pc' = "zip"
    /\ UNCHANGED <<repo, dir, total, progress, poller, task_pc, chunk_pos,
                   previous_entry, previous_tree, result, loadVars, call, hasher>>

\* Lines 119-127: the next file is copied into the archive under its name.
ZipAdd ==
    /\ pc = "zip"
    /\ Len(Unwrap(zip_file).entries) < Len(files)
    /\ LET path == files[Len(Unwrap(zip_file).entries) + 1]
       IN  zip_file' = Some([Unwrap(zip_file) EXCEPT
                               !.entries = Append(@, [name |-> path,
                                                      data |-> dir[path]])])
    /\ UNCHANGED <<repo, pc, dir, total, progress, poller, task_pc, chunk_pos,
                   previous_entry, previous_tree, files, result, loadVars, call, hasher>>

\* Lines 129-132: the archive is finished and run returns; the temporary
\* directory is removed.
ZipFinish ==
    /\ pc = "zip"
    /\ Len(Unwrap(zip_file).entries) = Len(files)
    /\ zip_file' = Some([Unwrap(zip_file) EXCEPT !.finished = TRUE])
    /\ dir' = EmptyMap
    /\ result' = Ok(<<>>)
    /\ pc' = "done"
    /\ UNCHANGED <<repo, total, progress, poller, task_pc, chunk_pos,
                   previous_entry, previous_tree, files, loadVars, call, hasher>>

Next ==
    \/ Start
    \/ PollerTick
    \/ \E i \in Chunks : OpenChunk(i)
    \/ \E i \in Chunks : FailOpen(i)
    \/ \E i \in Chunks : StepCommit(i)
    \/ \E i \in Chunks : FailCommit(i)
    \/ \E i \in Chunks : FailSerialize(i)
    \/ \E i \in Chunks : FinishChunk(i)
    \/ \E i \in Chunks : SkipChunk(i)
    \/ ScanFailed
    \/ JoinPoller
    \/ CreateZip
    \/ ZipAdd
    \/ ZipFinish

Spec == Init /\ [][Next]_vars

(***************************************************************************)
(* render.rs: load_data.                                                   *)
(***************************************************************************)
\* The u64 at the start of a zip entry's data, and the k-th entry after it:
\* None when the data ends before it or it does not decode.
ReadCountOf(file) ==
    IF Len(file.frames) < 1 THEN None ELSE DeserializeU64(file.frames[1])
ReadRecordOf(file, k) ==
    IF Len(file.frames) < k + 1 THEN None ELSE DeserializeEntry(file.frames[k + 1])

\* entry.timestamp.date().naive_local(): the day of the local time.
Date(timestamp) == (timestamp.utc + timestamp.offset) \div 86400

\* Filtered counting the files of every language.
FilteredAll(entry, flt) ==
    [code |-> SumSeq([i \in DOMAIN PathSeq |->
                        IF PathSeq[i] \in DOMAIN entry.files
                        THEN entry.files[PathSeq[i]].statistics.code ELSE 0]),
     comments |-> SumSeq([i \in DOMAIN PathSeq |->
                        IF PathSeq[i] \in DOMAIN entry.files
                        THEN entry.files[PathSeq[i]].statistics.comments ELSE 0])]

\* Entry::filtered (models.rs), folded to the sums of code and comments.
Filtered(entry, flt) ==
    LET counted(p) == p \in DOMAIN entry.files /\ entry.files[p].language \in flt
    IN  [code |-> SumSeq([i \in DOMAIN PathSeq |->
                            IF counted(PathSeq[i])
                            THEN entry.files[PathSeq[i]].statistics.code ELSE 0]),
         comments |-> SumSeq([i \in DOMAIN PathSeq |->
                            IF counted(PathSeq[i])
                            THEN entry.files[PathSeq[i]].statistics.comments ELSE 0])]

\* The SimpleEntry pushed for a decoded entry (lines 127-135).
SimpleEntry(entry, flt) ==
    [timestamp |-> Date(entry.timestamp),
     code |-> Filtered(entry, flt).code,
     comments |-> Filtered(entry, flt).comments]

\* render::run, lines 33-39: an empty filter stands for every language.
RunFilter(flt) == IF flt = {} THEN Languages ELSE flt

\* The archives read. The entries of a snapshot are those the scan writes for
\* the commits of LongPattern.
Snapshot(k) == commit_stats(LongPattern[k], None, None).entry
ChunkEntry(count, frames) ==
    [frames |-> <<SerializeU64(count)>> \o frames, finished |-> TRUE]
EntryChoices ==
    {ChunkEntry(2, <<SerializeEntry(Snapshot(1), PathSeq),
                     SerializeEntry(Snapshot(2), PathSeq)>>),
     ChunkEntry(1, <<SerializeEntry(Snapshot(3), PathSeq)>>),
     \* written by a map of another order
     ChunkEntry(1, <<SerializeEntry(Snapshot(1), Reverse(PathSeq))>>),
     ChunkEntry(0, <<>>),
     \* the count is larger than the entries present
     ChunkEntry(2, <<SerializeEntry(Snapshot(1), PathSeq)>>),
     \* the count is smaller than the entries present
     ChunkEntry(1, <<SerializeEntry(Snapshot(2), PathSeq),
                     SerializeEntry(Snapshot(1), PathSeq)>>),
     \* an entry that does not decode: its files are cut off
     ChunkEntry(1, <<SubSeq(SerializeEntry(Snapshot(1), PathSeq), 1, 4)>>)}

\* The number of zip entries after the header is at most this.
MaxEntries == 2

CountSum(es) == SumSeq([i \in DOMAIN es |-> es[i].frames[1][1]])
HeaderChoices(es) ==
    {<<SerializeU64(0)>>, <<SerializeU64(CountSum(es))>>,
     <<SerializeU64(CountSum(es) + 1)>>, <<>>}
Archive(header, es) ==
    <<[name |-> InfoName, data |-> [frames |-> header, finished |-> TRUE]]>>
    \o [i \in DOMAIN es |-> [name |-> StatsName(i - 1), data |-> es[i]]]
Archives ==
    UNION {{Archive(h, es) : h \in HeaderChoices(es)} :
           es \in UNION {[1..n -> EntryChoices] : n \in 0..MaxEntries}}
Filters == {{}, {"Python"}, {"Markdown"}}

\* A job of the parallel range (lo .. hi - 1, indices of zip entries): not
\* yet started, split in two, folding its indices in order, or ended.
ReadyNode == [st |-> "ready", next |-> 0, reader |-> None, list |-> <<>>]
Root == <<1, Len(input)>>

LoadInit ==
    /\ input \in Archives
    /\ filter \in Filters
    /\ pc = "load"
    /\ repo = [len |-> 0, pattern |-> <<>>]
    /\ dir = EmptyMap
    /\ total = 0
    /\ progress = 0
    /\ poller = "none"
    /\ task_pc = EmptyMap
    /\ chunk_pos = EmptyMap
    /\ previous_entry = EmptyMap
    /\ previous_tree = EmptyMap
    /\ files = <<>>
    /\ call = None
    /\ hasher = PathSeq
    /\ zip_file = None
    /\ result = None
    /\ nodes = EmptyMap
    /\ full = FALSE
    /\ data = None

\* render::run lines 33-40 and load_data lines 96-111: the header is read and
\* the progress printer is started with its value as the total.
LoadStart ==
    /\ pc = "load"
    /\ filter' = RunFilter(filter)
    /\ LET header == ReadCountOf(input[1].data)
       IN  IF IsSome(header)
           THEN /\ total' = Unwrap(header)
                /\ progress' = 0
                /\ poller' = "polling"
                /\ nodes' = (Root :> ReadyNode)
                /\ pc' = "fold"
                /\ UNCHANGED result
           ELSE /\ result' = Err
                /\ pc' = "returned"
                /\ UNCHANGED <<total, progress, poller, nodes>>
    /\ UNCHANGED <<scanVars, call, input, full, data>>

\* The range of a job is split in the middle, unless a job has failed.
Split(n) ==
    /\ pc = "fold"
    /\ n \in DOMAIN nodes
    /\ nodes[n].st = "ready"
    /\ ~full
    /\ n[2] - n[1] >= 2
    /\ LET mid == n[1] + (n[2] - n[1]) \div 2
       IN  nodes' = [nodes EXCEPT ![n].st = "split"]
                    @@ (<<n[1], mid>> :> ReadyNode) @@ (<<mid, n[2]>> :> ReadyNode)
    /\ UNCHANGED <<scanVars, call, pc, total, progress, poller, result, input, filter,
                   full, data>>

\* A job starts to fold its range into a new list; after a failure, or with
\* an empty range, it ends at once with the empty list.
FoldStart(n) ==
    /\ pc = "fold"
    /\ n \in DOMAIN nodes
    /\ nodes[n].st = "ready"
    /\ nodes' = [nodes EXCEPT ![n] =
                   IF full \/ n[1] = n[2]
                   THEN [@ EXCEPT !.st = "ok"]
                   ELSE [@ EXCEPT !.st = "fold", !.next = n[1]]]
    /\ UNCHANGED <<scanVars, call, pc, total, progress, poller, result, input, filter,
                   full, data>>

\* The end of the closure for one index: the job goes on with the next index,
\* and ends at the end of its range or when a job has failed.
EndItem(node, hi) ==
    [node EXCEPT !.next = @ + 1, !.reader = None,
                 !.st = IF node.next + 1 = hi \/ full THEN "ok" ELSE "fold"]

\* Lines 116-123: the zip entry of the next index is opened and its count read.
ReadCount(n) ==
    /\ pc = "fold"
    /\ n \in DOMAIN nodes
    /\ nodes[n].st = "fold"
    /\ ~IsSome(nodes[n].reader)
    /\ LET count == ReadCountOf(input[nodes[n].next + 1].data)
       IN  IF ~IsSome(count)
           THEN /\ nodes' = [nodes EXCEPT ![n].st = "err"]
                /\ full' = TRUE
           ELSE /\ nodes' = [nodes EXCEPT ![n] =
                               IF Unwrap(count) = 0
                               THEN EndItem(@, n[2])
                               ELSE [@ EXCEPT !.reader =
                                       Some([count |-> Unwrap(count), pos |-> 0])]]
                /\ UNCHANGED full
    /\ UNCHANGED <<scanVars, call, pc, total, progress, poller, result, input, filter,
                   data>>

\* Lines 125-138: the next entry is decoded, its point is pushed and the
\* progress counted.
ReadRecord(n) ==
    /\ pc = "fold"
    /\ n \in DOMAIN nodes
    /\ nodes[n].st = "fold"
    /\ IsSome(nodes[n].reader)
    /\ LET reader == Unwrap(nodes[n].reader)
           entry == ReadRecordOf(input[nodes[n].next + 1].data, reader.pos + 1)
       IN  IF ~IsSome(entry)
           THEN /\ nodes' = [nodes EXCEPT ![n].st = "err"]
                /\ full' = TRUE
                /\ UNCHANGED progress
           ELSE /\ progress' = fetch_add(progress, 1)
                /\ LET pushed == [nodes[n] EXCEPT
                                    !.list = Append(@, SimpleEntry(Unwrap(entry),
                                                                   filter))]
                   IN  nodes' = [nodes EXCEPT ![n] =
                                   IF reader.pos + 1 = reader.count
                                   THEN EndItem(pushed, n[2])
                                   ELSE [pushed EXCEPT !.reader =
                                           Some([reader EXCEPT !.pos = @ + 1])]]
                /\ UNCHANGED full
    /\ UNCHANGED <<scanVars, call, pc, total, poller, result, input, filter, data>>

\* Extend with the halves joined in the wrong order.
ExtendSwapped(list, sublist) == sublist \o list

\* try_reduce (lines 142-145): the results of the two halves of a split job
\* are joined, the left one first.
Extend(list, sublist) == list \o sublist

Reduce(n) ==
    /\ pc = "fold"
    /\ n \in DOMAIN nodes
    /\ nodes[n].st = "split"
    /\ LET mid == n[1] + (n[2] - n[1]) \div 2
           left == nodes[<<n[1], mid>>]
           right == nodes[<<mid, n[2]>>]
       IN  /\ left.st \in {"ok", "err"}
           /\ right.st \in {"ok", "err"}
           /\ nodes' = [m \in (DOMAIN nodes) \ {<<n[1], mid>>, <<mid, n[2]>>} |->
                          IF m # n THEN nodes[m]
                          ELSE IF left.st = "ok" /\ right.st = "ok"
                          THEN [nodes[n] EXCEPT !.st = "ok",
                                                !.list = Extend(left.list, right.list)]
                          ELSE [nodes[n] EXCEPT !.st = "err"]]
    /\ UNCHANGED <<scanVars, call, pc, total, progress, poller, result, input, filter,
                   full, data>>

\* The parallel iterator returns the result of the first job.
LoadJoin ==
    /\ pc = "fold"
    /\ nodes[Root].st \in {"ok", "err"}
    /\ data' = IF nodes[Root].st = "ok" THEN Ok(nodes[Root].list) ELSE Err
    /\ pc' = "wait"
    /\ UNCHANGED <<scanVars, call, total, progress, poller, result, input, filter, nodes,
                   full>>

\* Lines 147-149: progress.wait() joins the progress printer, then the result
\* is returned.
Wait ==
    /\ pc = "wait"
    /\ poller = "finished"
    /\ result' = data
    /\ pc' = "returned"
    /\ UNCHANGED <<scanVars, call, total, progress, poller, input, filter, nodes, full,
                   data>>

LoadNext ==
    \/ LoadStart
    \/ PollerTick
    \/ \E n \in DOMAIN nodes : Split(n)
    \/ \E n \in DOMAIN nodes : FoldStart(n)
    \/ \E n \in DOMAIN nodes : ReadCount(n)
    \/ \E n \in DOMAIN nodes : ReadRecord(n)
    \/ \E n \in DOMAIN nodes : Reduce(n)
    \/ LoadJoin
    \/ Wait

SpecLoad == LoadInit /\ [][LoadNext]_vars

(***************************************************************************)
(* scan.rs: run on the longest histories, from the return of the parallel  *)
(* scan (line 101) to the end (lines 103-132). The scan itself, commit by  *)
(* commit, with its interleavings and failures, is stepped on the          *)
(* histories of Spec; here every task has succeeded, and the entries a     *)
(* task wrote after the count are kept as the oids they are of.            *)
(***************************************************************************)
\* The longest histories have CHUNK_AMOUNT * MIN_CHUNK_SIZE up to
\* CHUNK_AMOUNT * MIN_CHUNK_SIZE + MaxBigExtra commits.
MaxBigExtra == 1

BigRepos ==
    [len : (CHUNK_AMOUNT * MIN_CHUNK_SIZE)..(CHUNK_AMOUNT * MIN_CHUNK_SIZE + MaxBigExtra),
     pattern : {LongPattern}]

\* The file the task of chunk i leaves when every commit of it succeeds
\* (lines 81-97).
ChunkFile(i) ==
    [frames |-> <<SerializeU64(ChunkCount(repo.len, i, chunk_size))>>,
     oids |-> [first |-> ChunkStart(i, chunk_size),
               last |-> ChunkStart(i, chunk_size)
                          + ChunkLen(repo.len, i, chunk_size) - 1],
     finished |-> TRUE]

\* The temporary directory when every task has returned Ok: the info file
\* (lines 47-52) and the file of every chunk.
ScannedDir ==
    [name \in {InfoName} \cup {StatsName(j) : j \in Chunks} |->
       IF name = InfoName
       THEN Finish(SerializeInto(NewZstdFile, SerializeU64(repo.len)))
       ELSE ChunkFile(CHOOSE j \in Chunks : StatsName(j) = name)]

\* The state at line 101 when no task has failed: every commit is counted,
\* and the progress printer may not have read the last count yet.
BigInit ==
    /\ repo \in BigRepos
    /\ pc = "scan"
    /\ dir = ScannedDir
    /\ total = repo.len
    /\ progress = repo.len
    /\ poller = "polling"
    /\ task_pc = [i \in Chunks |-> "done"]
    /\ chunk_pos = [i \in Chunks |-> ChunkLen(repo.len, i, chunk_size)]
    /\ previous_entry = [i \in Chunks |-> None]
    /\ previous_tree = [i \in Chunks |-> None]
    /\ files = <<>>
    /\ call = None
    /\ hasher = PathSeq
    /\ zip_file = None
    /\ result = None
    /\ input = <<>>
    /\ filter = {}
    /\ nodes = EmptyMap
    /\ full = FALSE
    /\ data = None

BigNext ==
    \/ PollerTick
    \/ JoinPoller
    \/ CreateZip
    \/ ZipAdd
    \/ ZipFinish

SpecBig == BigInit /\ [][BigNext]_vars

FairSpecLoad == SpecLoad /\ WF_vars(LoadNext)

(***************************************************************************)
(* scan.rs: one call of commit_stats, delta by delta (lines 150-211).       *)
(* The arms for Renamed and Copied deltas are in the code, although the     *)
(* diff of run, made without find_similar, has no such deltas: here the     *)
(* loop is stepped over diffs with deltas of all five kinds.                *)
(***************************************************************************)
MaxDeltas == 1

\* The records a snapshot may hold: an arm for Renamed or Copied stores a
\* record under a path of another name, so a record is not bound to a path.
Records ==
    {[language |-> "Python", statistics |-> Summarise(ParseFromSlice("Python", 1))],
     [language |-> "Rust", statistics |-> Summarise(ParseFromSlice("Rust", 2))]}

\* entry.files at the start of the loop: the files of previous_entry.
FileMaps == UNION {[ps -> Records] : ps \in SUBSET Paths}

\* The deltas a diff whose new side is the tree can have: the new file of an
\* Added, Modified, Renamed or Copied delta is in the tree, the old file of a
\* Renamed one is not and the old file of a Copied one is.
DeltasOn(tree) ==
    {d \in [status : {"Added", "Modified", "Deleted", "Renamed", "Copied"},
            old_file : Paths, new_file : Paths] :
       /\ d.status \in {"Added", "Modified", "Deleted"} => d.old_file = d.new_file
       /\ d.status \in {"Renamed", "Copied"} => d.old_file # d.new_file
       /\ d.status # "Deleted" => d.new_file \in DOMAIN tree
       /\ d.status = "Renamed" => d.old_file \notin DOMAIN tree
       /\ d.status = "Copied" => d.old_file \in DOMAIN tree}

\* The diffs of at most MaxDeltas deltas against files that have a record
\* for what the old tree held: a path is Added only if it has no record, or
\* right after the Deleted delta of the same path (an item that changed its
\* kind), and a path that has a record, the record of a blob, is Modified
\* only into a blob.
Diffs(tree, start) ==
    {diff \in UNION {[1..n -> DeltasOn(tree)] : n \in 1..MaxDeltas} :
       \A i \in DOMAIN diff :
          /\ (diff[i].status = "Added" /\ diff[i].new_file \in DOMAIN start)
                => /\ i > 1
                   /\ diff[i - 1].status = "Deleted"
                   /\ diff[i - 1].old_file = diff[i].new_file
          /\ (diff[i].status = "Modified" /\ diff[i].new_file \in DOMAIN start)
                => tree[diff[i].new_file].kind = "Blob"}

\* The call at line 150: entry.files is the clone of the previous files.
\* The calls are those of the function, not only those of a scan: the diff
\* of run has no Renamed and no Copied delta, and the previous files of a
\* scan are the classified tree of the commit before.
DeltaInit ==
    /\ \E tree \in Trees, start \in FileMaps :
         \E diff \in Diffs(tree, start) :
            call = [st |-> "loop", entry_files |-> start, diff |-> diff,
                    tree |-> tree, start |-> start, applied |-> <<>>,
                    before |-> start]
    /\ pc = "commit_stats"
    /\ repo = [len |-> 0, pattern |-> <<>>]
    /\ dir = EmptyMap
    /\ total = 0
    /\ progress = 0
    /\ poller = "none"
    /\ task_pc = EmptyMap
    /\ chunk_pos = EmptyMap
    /\ previous_entry = EmptyMap
    /\ previous_tree = EmptyMap
    /\ files = <<>>
    /\ hasher = PathSeq
    /\ zip_file = None
    /\ result = None
    /\ input = <<>>
    /\ filter = {}
    /\ nodes = EmptyMap
    /\ full = FALSE
    /\ data = None

\* One iteration of diff.deltas() (lines 155-207): the arm of the next delta;
\* a panic ends the call. The call keeps the files it started with, the
\* deltas it has matched and the files before the last of them.
NextDelta ==
    /\ pc = "commit_stats"
    /\ call.st = "loop"
    /\ call.diff # <<>>
    /\ LET delta == Head(call.diff)
           r == ApplyDelta(call.entry_files, delta, call.tree)
       IN  IF IsPanic(r)
           THEN call' = [call EXCEPT !.st = "panicked",
                                     !.applied = Append(@, delta),
                                     !.before = call.entry_files]
           ELSE call' = [call EXCEPT !.entry_files = r, !.diff = Tail(call.diff),
                                     !.applied = Append(@, delta),
                                     !.before = call.entry_files]
    /\ UNCHANGED <<scanVars, loadVars, pc, total, progress, poller, result>>

\* The end of the loop (lines 209-211): the commit is counted, the entry
\* returned.
Return ==
    /\ pc = "commit_stats"
    /\ call.st = "loop"
    /\ call.diff = <<>>
    /\ progress' = fetch_add(progress, 1)
    /\ call' = [call EXCEPT !.st = "returned"]
    /\ UNCHANGED <<scanVars, loadVars, pc, total, poller, result>>

\* A panic inside a task of the parallel scan is resumed in run when the
\* scan ends (line 101): run does not return a value and makes no archive.
Unwind ==
    /\ pc = "commit_stats"
    /\ call.st = "panicked"
    /\ pc' = "failed"
    /\ result' = Err
    /\ UNCHANGED <<scanVars, loadVars, call, total, progress, poller>>

DeltaNext ==
    \/ NextDelta
    \/ Return
    \/ Unwind

SpecDelta == DeltaInit /\ [][DeltaNext]_vars

(***************************************************************************)
(* scan.rs: the chunks of par_chunks, taken one by one (lines 74-76).       *)
(* The iterator splits the first chunk_size oids off what is left, until    *)
(* nothing is left; the scan above uses the closed forms ChunkStart and     *)
(* ChunkLen.                                                                *)
(***************************************************************************)
MaxSlack == 2

\* The lengths of the histories: around one commit, one chunk of the minimal
\* size, CHUNK_AMOUNT chunks of the minimal size, and CHUNK_AMOUNT chunks of
\* the next size.
ChunkBases == {1, MIN_CHUNK_SIZE - 1, CHUNK_AMOUNT * MIN_CHUNK_SIZE - 1,
               CHUNK_AMOUNT * (MIN_CHUNK_SIZE + 1) - 1}
ChunkLens == {b + e : b \in ChunkBases, e \in 0..MaxSlack}

ChunksInit ==
    /\ repo \in [len : ChunkLens, pattern : {LongPattern}]
    /\ pc = "par_chunks"
    /\ call = [pos |-> 0, chunks |-> <<>>]
    /\ dir = EmptyMap
    /\ total = 0
    /\ progress = 0
    /\ poller = "none"
    /\ task_pc = EmptyMap
    /\ chunk_pos = EmptyMap
    /\ previous_entry = EmptyMap
    /\ previous_tree = EmptyMap
    /\ files = <<>>
    /\ hasher = PathSeq
    /\ zip_file = None
    /\ result = None
    /\ input = <<>>
    /\ filter = {}
    /\ nodes = EmptyMap
    /\ full = FALSE
    /\ data = None

\* The next chunk: the first chunk_size oids of what is left, or all of it;
\* enumerate() numbers the chunks from 0.
TakeChunk ==
    /\ pc = "par_chunks"
    /\ call.pos < repo.len
    /\ \E n \in {Min(chunk_size, repo.len - call.pos)} :
          call' = [pos |-> call.pos + n,
                   chunks |-> Append(call.chunks,
                                     [index |-> Len(call.chunks),
                                      start |-> call.pos + 1, len |-> n])]
    /\ UNCHANGED <<scanVars, loadVars, pc, total, progress, poller, result>>

\* Nothing is left: the iterator ends.
EndChunks ==
    /\ pc = "par_chunks"
    /\ call.pos = repo.len
    /\ pc' = "chunked"
    /\ UNCHANGED <<scanVars, loadVars, call, total, progress, poller, result>>

ChunksNext ==
    \/ TakeChunk
    \/ EndChunks

SpecChunks == ChunksInit /\ [][ChunksNext]_vars

(***************************************************************************)
(* scan.rs and render.rs: a scan, then the rendering of its archive.       *)
(* A scan in which a step fails writes no archive (see Failed): these are   *)
(* the runs in which none does.                                             *)
(***************************************************************************)
\* The histories scanned and rendered: the commits of LongPattern, at most
\* one more than a chunk of the minimal size holds.
RunRepos ==
    {r \in Repos : /\ r.len <= MIN_CHUNK_SIZE + 1
                   /\ r.pattern = SubSeq(LongPattern, 1, Len(r.pattern))}

RunInit == InitOf(RunRepos, Hashers)

\* The filters of these renderings: none, and a language of the history.
RunFilters == {{}, {"Python"}}

\* render::run on stats.stats: the archive of the scan is the input of
\* load_data, with the filter of the command line.
Render ==
    /\ pc = "done"
    /\ input' = Unwrap(zip_file).entries
    /\ filter' \in RunFilters
    /\ pc' = "load"
    /\ UNCHANGED <<scanVars, call, total, progress, poller, result, nodes, full,
                   data>>

\* The steps of a scan in which nothing fails, and those of the rendering.
RunNext ==
    \/ Start
    \/ PollerTick
    \/ \E i \in Chunks : OpenChunk(i)
    \/ \E i \in Chunks : StepCommit(i)
    \/ \E i \in Chunks : FinishChunk(i)
    \/ JoinPoller
    \/ CreateZip
    \/ ZipAdd
    \/ ZipFinish
    \/ Render
    \/ LoadNext

SpecRun == RunInit /\ [][RunNext]_vars

(***************************************************************************)
(* Properties.                                                             *)
(***************************************************************************)
\* The points of one zip entry: one for each of the entries its count states.
EntryPoints(file, flt) ==
    [k \in 1..Unwrap(ReadCountOf(file)) |->
       SimpleEntry(Unwrap(ReadRecordOf(file, k)), flt)]

\* The points of the zip entries 1 .. N, in the order of their index.
ExpectedSeries ==
    Flatten([i \in 1..(Len(input) - 1) |-> EntryPoints(input[i + 1].data, filter)])

\* C1: what load_data returns is the concatenation, in ascending index of the
\* zip entries, of the points of each entry in the order of its records, one
\* point for each decoded entry, whatever the order in which the jobs ran.
C1_LoadOrder ==
    (pc = "returned" /\ IsOk(result)) => result.ok = ExpectedSeries

\* load_data has returned three points of two zip entries, two of them of
\* the same date.
C1_Witness ==
    /\ pc = "returned"
    /\ IsOk(result)
    /\ Len(input) = 3
    /\ Len(result.ok) = 3
    /\ result.ok[2].timestamp = result.ok[3].timestamp
    /\ result.ok[1] # result.ok[2]

\* C2: in the archive run writes, the first entry is "info" and the entry
\* after it at position i + 1 is the file of chunk i. The copy loop only
\* appends, so the entries written so far are the first ones of the archive
\* run returns with.
C2_NamesInChunkOrder ==
    IsSome(zip_file) =>
        LET entries == Unwrap(zip_file).entries
        IN  \A k \in DOMAIN entries :
               entries[k].name = IF k = 1 THEN InfoName ELSE StatsName(k - 2)

\* The files of a tree classified from scratch: every blob with a recognized
\* language, with the statistics of its content.
ClassifyTree(tree) ==
    [p \in {q \in DOMAIN tree : /\ tree[q].kind = "Blob"
                                /\ IsSome(LanguageFromPath(Name(q)))} |->
       [language |-> Unwrap(LanguageFromPath(Name(p))),
        statistics |-> Summarise(ParseFromSlice(Unwrap(LanguageFromPath(Name(p))),
                                                tree[p].id))]]

\* The tasks whose previous_entry is the entry of the commit before NextOid.
Healthy(i) == task_pc[i] \in {"running", "done"} /\ IsSome(previous_entry[i])

\* C3: the files commit_stats computes for a commit from the previous entry
\* and the diff of the trees are the files of the commit's tree classified
\* from scratch.
C3_DiffReplay ==
    \A i \in Chunks :
        Healthy(i) =>
            Unwrap(previous_entry[i]).files
                = ClassifyTree(CommitAt(repo, NextOid(i) - 1).tree)

\* A task has computed an entry from the previous one with an Added, a
\* Modified and a Deleted delta.
C3_Witness ==
    \E i \in Chunks :
        /\ Healthy(i)
        /\ chunk_pos[i] >= 2
        /\ {d.status : d \in Range(DiffTreeToTree(
                                     Some(CommitAt(repo, NextOid(i) - 2).tree),
                                     CommitAt(repo, NextOid(i) - 1).tree))}
             = {"Added", "Modified", "Deleted"}

\* The loop of a task (lines 84-95) over the oids lo .. hi, started from the
\* given previous entry and tree: the entries it writes.
RECURSIVE ScanSeq(_, _, _, _, _)
ScanSeq(r, lo, hi, prev_entry, prev_tree) ==
    IF lo > hi THEN <<>>
    ELSE IF lo = hi
    THEN <<commit_stats(CommitAt(r, lo), prev_entry, prev_tree).entry>>
    ELSE LET mid == lo + (hi - lo) \div 2
             left == ScanSeq(r, lo, mid, prev_entry, prev_tree)
         IN  left \o ScanSeq(r, mid + 1, hi, Some(left[Len(left)]),
                             Some(CommitAt(r, mid).tree))

\* The entries of a history scanned as one chunk; those of the long
\* histories are computed once.
SingleScans == {<<r, ScanSeq(r, 1, r.len, None, None)>> : r \in LongRepos}
SingleScan(r) ==
    IF r.len <= MIN_CHUNK_SIZE THEN ScanSeq(r, 1, r.len, None, None)
    ELSE (CHOOSE p \in SingleScans : p[1] = r)[2]

\* C4: the entry a task computes for a commit, with the history split into
\* chunks each started from no previous entry and no previous tree, is the
\* entry the scan of the history as one chunk computes for that commit.
C4_ChunkBoundary ==
    \A i \in Chunks :
        Healthy(i) => Unwrap(previous_entry[i]) = SingleScan(repo)[NextOid(i) - 1]

\* The task of a later chunk has computed the entry of its first commit, a
\* commit that deletes a file of the commit before it.
C4_Witness ==
    \E i \in Chunks :
        /\ i >= 1
        /\ Healthy(i)
        /\ chunk_pos[i] = 1
        /\ \E d \in Range(DiffTreeToTree(Some(CommitAt(repo, NextOid(i) - 2).tree),
                                         CommitAt(repo, NextOid(i) - 1).tree)) :
              d.status = "Deleted" /\ IsSome(LanguageFromPath(Name(d.old_file)))

\* C5: the entries after "info" of the archive run writes hold, in the
\* order of the archive, the entries of the oids 1, 2, ... of the history:
\* each entry written continues where the one before it ended, and the last
\* one of the finished archive ends with the last commit.
C5_RoundTripOrder ==
    IsSome(zip_file) =>
        LET entries == Unwrap(zip_file).entries
        IN  /\ \A k \in 2..Len(entries) :
                  entries[k].data.oids.first =
                     IF k = 2 THEN 1 ELSE entries[k - 1].data.oids.last + 1
            /\ pc = "done" =>
                  /\ Len(entries) >= 2
                  /\ entries[Len(entries)].data.oids.last = repo.len

\* C6: in the archive run has written, the count of "info" is the length of
\* the history and the sum of the counts of the other entries, and each of
\* these holds as many entries as its count states.
C6_Counts ==
    pc = "done" =>
        LET entries == Unwrap(zip_file).entries
            isInfo(k) == entries[k].name = InfoName
        IN  /\ \E k \in DOMAIN entries : isInfo(k)
            /\ \A k \in DOMAIN entries :
                  isInfo(k) => ReadCountOf(entries[k].data) = Some(repo.len)
            /\ SumSeq([k \in DOMAIN entries |->
                         IF isInfo(k) THEN 0
                         ELSE Unwrap(ReadCountOf(entries[k].data))]) = repo.len
            /\ \A k \in DOMAIN entries :
                  ~isInfo(k) =>
                     LET count == Unwrap(ReadCountOf(entries[k].data))
                     IN  /\ Len(entries[k].data.frames) = count + 1
                         /\ \A j \in 1..count :
                               IsSome(ReadRecordOf(entries[k].data, j))

\* run has written the archive of a history of two chunks.
C6_Witness ==
    /\ pc = "done"
    /\ Len(Unwrap(zip_file).entries) = 3
    /\ repo.len > MIN_CHUNK_SIZE

\* The commits commit_stats has returned for, over all chunks.
Processed == SumSeq([k \in 1..NumChunks(repo.len, chunk_size) |-> chunk_pos[k - 1]])

\* C7: the progress counter is the number of commits commit_stats has
\* returned for, at most the length of the history, and the length of the
\* history once every task is done; a step changes it only by adding one,
\* for the one commit a task has processed in that step.
C7_Progress ==
    /\ [](/\ progress = Processed
          /\ progress <= repo.len
          /\ (pc = "scan" /\ \A i \in Chunks : task_pc[i] = "done")
                => progress = repo.len)
    /\ [][progress' # progress =>
            /\ progress' = progress + 1
            /\ \E i \in Chunks :
                  /\ chunk_pos'[i] = chunk_pos[i] + 1
                  /\ \A j \in Chunks \ {i} : chunk_pos'[j] = chunk_pos[j]]_vars

\* Two tasks have each processed commits, and every task is done.
C7_Witness ==
    /\ pc = "scan"
    /\ \A i \in Chunks : task_pc[i] = "done"
    /\ \E i, j \in Chunks : i # j /\ chunk_pos[i] >= 2 /\ chunk_pos[j] >= 1
    /\ progress = repo.len

\* C8: once every job of load_data has succeeded, the progress printer ends
\* and load_data returns; and the progress printer has not ended while the
\* counter is below the total.
C8_PollerJoins ==
    /\ IsOk(data) ~> (pc = "returned")
    /\ [](poller = "finished" => progress >= total)

\* C9: once a job of load_data has failed, load_data returns the error.
C9_FailFast == IsErr(data) ~> (pc = "returned" /\ IsErr(result))

\* C10: load_data does not return a series when the count of a zip entry
\* differs from the number of entries the zip entry holds.
C10_CountChecked ==
    (pc = "returned" /\ IsOk(result)) =>
        \A i \in 2..Len(input) :
            ReadCountOf(input[i].data) = Some(Len(input[i].data.frames) - 1)

\* C11: once a task has failed, run does not go on to the assembly: no
\* archive is created or written, run can return once no task runs any
\* more, and what it returns is the error; the archive exists only when
\* every task is done.
C11_NoContainerOnFailure ==
    /\ Failed => /\ zip_file = None
                 /\ pc \in {"scan", "failed"}
                 /\ pc = "failed" => IsErr(result)
                 /\ (/\ pc = "scan"
                     /\ \A i \in Chunks : task_pc[i] \notin {"pending", "running"})
                       => ENABLED ScanFailed
    /\ IsSome(zip_file) => \A i \in Chunks : task_pc[i] = "done"

\* run has returned the error of a task that failed after it had written
\* an entry, while the task of another chunk is done.
C11_Witness ==
    /\ pc = "failed"
    /\ IsErr(result)
    /\ \E i, j \in Chunks : /\ task_pc[i] = "failed" /\ chunk_pos[i] >= 1
                              /\ task_pc[j] = "done"

\* The sum of the values of a function.
RECURSIVE SumFn(_)
SumFn(g) ==
    IF DOMAIN g = {} THEN 0
    ELSE LET x == CHOOSE y \in DOMAIN g : TRUE
         IN  g[x] + SumFn([y \in (DOMAIN g) \ {x} |-> g[y]])

\* The sums of code and comments over exactly the files of an entry whose
\* language is one of langs.
SumsOf(entry, langs) ==
    LET counted == {p \in DOMAIN entry.files : entry.files[p].language \in langs}
    IN  <<SumFn([p \in counted |-> entry.files[p].statistics.code]),
          SumFn([p \in counted |-> entry.files[p].statistics.comments])>>

\* The sums of every entry of the archive, in the order of the archive.
ExpectedSums(langs) ==
    Flatten([i \in 1..(Len(input) - 1) |->
               [k \in 1..Unwrap(ReadCountOf(input[i + 1].data)) |->
                  SumsOf(Unwrap(ReadRecordOf(input[i + 1].data, k)), langs)]])

\* C12: the code and comments of every point load_data returns are the sums
\* over exactly the files of its entry whose language is in the filter (none
\* when no file has such a language), and render::run replaces an empty
\* filter by the set of all languages and leaves any other filter as it is.
C12_FilterSums ==
    /\ []((pc = "returned" /\ IsOk(result)) =>
             [k \in DOMAIN result.ok |-> <<result.ok[k].code, result.ok[k].comments>>]
                = ExpectedSums(filter))
    /\ [][pc = "load" =>
            filter' = IF filter = {} THEN Languages ELSE filter]_vars

\* load_data has returned, for the filter of one language, a point with the
\* sums of a file of that language, of an entry that has a file of another
\* language too, and an empty point of an entry without such a file.
C12_Witness ==
    /\ pc = "returned"
    /\ IsOk(result)
    /\ filter = {"Python"}
    /\ Len(result.ok) = 2
    /\ result.ok[1].code = 2 /\ result.ok[1].comments = 2
    /\ result.ok[2].code = 0 /\ result.ok[2].comments = 0
    /\ FilteredAll(Unwrap(ReadRecordOf(input[2].data, 1)), filter).code > 2


\* The call of commit_stats has matched a delta: the last one and what it
\* names.
Matched == call # None /\ call.applied # <<>>
LastDelta == call.applied[Len(call.applied)]
NamedBy(deltas) ==
    UNION {{deltas[i].old_file, deltas[i].new_file} : i \in DOMAIN deltas}

\* C13: commit_stats changes only the paths its deltas name: whatever deltas
\* the loop has matched, every path that none of them names, as old or as
\* new file, has in entry.files the record it had in the previous snapshot,
\* or none if it had none there.
C13_Frame ==
    (Matched /\ call.st # "panicked") =>
        \A p \in Paths \ NamedBy(call.applied) :
           MapGet(call.entry_files, p) = MapGet(call.start, p)

\* The call has returned, a delta has changed the files, and a path that no
\* delta names has kept its record.
C13_Witness ==
    /\ Matched
    /\ call.st = "returned"
    /\ call.entry_files # call.start
    /\ \E p \in Paths \ NamedBy(call.applied) :
          /\ p \in DOMAIN call.start
          /\ p \in DOMAIN call.entry_files


\* The new file of the delta gets no record: its item is not a blob, or
\* from_path knows no language for its name.
Unrecognized(tree, path) ==
    \/ tree[path].kind # "Blob"
    \/ ~IsSome(LanguageFromPath(Name(path)))

\* The diff the task of chunk i computed for the commit it processed last
\* (line 149): against the tree of the commit before it, or against no tree
\* for the first commit of the chunk.
LastDiff(i) ==
    DiffTreeToTree(IF chunk_pos[i] >= 2
                   THEN Some(CommitAt(repo, NextOid(i) - 2).tree)
                   ELSE None,
                   CommitAt(repo, NextOid(i) - 1).tree)

\* C14: in the entry commit_stats returns for a commit, a path of an Added
\* or Modified delta of the commit's diff whose new file has no recognized
\* language has no record, whether or not it had one in the previous
\* snapshot.
C14_UnrecognizedAbsent ==
    \A i \in Chunks :
        Healthy(i) =>
            \A d \in Range(LastDiff(i)) :
               (/\ d.status \in {"Added", "Modified"}
                /\ Unrecognized(CommitAt(repo, NextOid(i) - 1).tree, d.new_file))
                  => d.new_file \notin DOMAIN Unwrap(previous_entry[i]).files

\* A task has computed an entry from the previous one for a commit in which
\* a file that had a record has become an item that is not a blob: the
\* diff names the path in an Added delta, and the record is gone.
C14_Witness ==
    \E i \in Chunks :
        /\ Healthy(i)
        /\ chunk_pos[i] >= 2
        /\ \E d \in Range(LastDiff(i)) :
              /\ d.status = "Added"
              /\ Unrecognized(CommitAt(repo, NextOid(i) - 1).tree, d.new_file)
              /\ d.new_file \in DOMAIN ClassifyTree(CommitAt(repo, NextOid(i) - 2).tree)
              /\ d.new_file \notin DOMAIN Unwrap(previous_entry[i]).files

\* C15: a Deleted delta leaves no record at its old path and does not fail;
\* when the path had no record before, the files are exactly what they were.
C15_DeletedRemoves ==
    (Matched /\ LastDelta.status = "Deleted") =>
        /\ call.st # "panicked"
        /\ LastDelta.old_file \notin DOMAIN call.entry_files
        /\ LastDelta.old_file \notin DOMAIN call.before
              => call.entry_files = call.before
        /\ \A p \in (DOMAIN call.before) \ {LastDelta.old_file} :
              MapGet(call.entry_files, p) = Some(call.before[p])

\* A Deleted delta for a path without a record has been matched, in files
\* that hold other records, and the call has returned.
C15_Witness ==
    /\ Matched
    /\ call.st = "returned"
    /\ LastDelta.status = "Deleted"
    /\ LastDelta.old_file \notin DOMAIN call.before
    /\ call.before # EmptyMap
    /\ call.entry_files = call.before


\* C16: a Renamed delta whose old path has a record moves it: afterwards the
\* old path has no record and the new path holds the record the old path
\* had, with its language and its statistics, whatever the new name is.
C16_RenamedMoves ==
    (/\ Matched
     /\ LastDelta.status = "Renamed"
     /\ LastDelta.old_file \in DOMAIN call.before)
        => /\ call.st # "panicked"
           /\ LastDelta.old_file \notin DOMAIN call.entry_files
           /\ MapGet(call.entry_files, LastDelta.new_file)
                 = Some(call.before[LastDelta.old_file])

\* A record has been moved to a path that had none and whose name from_path
\* would classify otherwise.
C16_Witness ==
    /\ Matched
    /\ call.st = "returned"
    /\ LastDelta.status = "Renamed"
    /\ LastDelta.old_file \in DOMAIN call.before
    /\ LastDelta.new_file \notin DOMAIN call.before
    /\ LanguageFromPath(Name(LastDelta.new_file))
          # Some(call.entry_files[LastDelta.new_file].language)

\* C17: a Copied delta whose old path has a record stores an equal record
\* under the new path, and the old path keeps its record.
C17_CopiedDuplicates ==
    (/\ Matched
     /\ LastDelta.status = "Copied"
     /\ LastDelta.old_file \in DOMAIN call.before)
        => /\ call.st # "panicked"
           /\ MapGet(call.entry_files, LastDelta.new_file)
                 = Some(call.before[LastDelta.old_file])
           /\ MapGet(call.entry_files, LastDelta.old_file)
                 = Some(call.before[LastDelta.old_file])

\* A record has been copied to a path that had none, and both paths hold it.
C17_Witness ==
    /\ Matched
    /\ call.st = "returned"
    /\ LastDelta.status = "Copied"
    /\ LastDelta.old_file \in DOMAIN call.before
    /\ LastDelta.new_file \notin DOMAIN call.before
    /\ call.entry_files[LastDelta.new_file] = call.entry_files[LastDelta.old_file]


\* C18: a Renamed or Copied delta whose old path has no record is fatal:
\* the call panics at the delta instead of going on to the next one, no
\* snapshot is returned, and all that follows is the failure of the run,
\* with no archive.
C18_MissingOldPathFatal ==
    /\ []((/\ Matched
           /\ LastDelta.status \in {"Renamed", "Copied"}
           /\ LastDelta.old_file \notin DOMAIN call.before)
             => /\ call.st = "panicked"
                /\ zip_file = None
                /\ ~IsOk(result)
                /\ pc = "commit_stats" => ENABLED Unwind)
    /\ [][(call # None /\ call.st = "panicked")
             => (call' = call /\ pc' = "failed" /\ IsErr(result')
                   /\ zip_file' = None)]_vars

\* The run has failed on a Copied delta whose old file, in the tree but of
\* an unrecognized name, has no record, while other paths have records.
C18_Witness ==
    /\ Matched
    /\ pc = "failed"
    /\ call.st = "panicked"
    /\ LastDelta.status = "Copied"
    /\ LastDelta.old_file \in DOMAIN call.tree
    /\ ~IsSome(LanguageFromPath(Name(LastDelta.old_file)))
    /\ LastDelta.old_file \notin DOMAIN call.before
    /\ call.before # EmptyMap


\* C19: the chunks of the scan are a partition of the history into
\* contiguous non-empty slices: the first starts at the first commit, each
\* starts where the one before ends, the last ends at the last commit;
\* chunk_size is the larger of MIN_CHUNK_SIZE and the history's length
\* divided by CHUNK_AMOUNT, every chunk that is followed by another has
\* exactly chunk_size commits, so none but the last is smaller than
\* MIN_CHUNK_SIZE; and chunk i is the slice the tasks of the scan take for it.
C19_ChunkPartition ==
    pc \in {"par_chunks", "chunked"} =>
        LET chunks == call.chunks
            n == Len(chunks)
        IN  /\ chunk_size >= MIN_CHUNK_SIZE
            /\ chunk_size >= repo.len \div CHUNK_AMOUNT
            /\ chunk_size \in {MIN_CHUNK_SIZE, repo.len \div CHUNK_AMOUNT}
            /\ n >= 1 => chunks[1].start = 1
            /\ {k \in 1..n : chunks[k].len < 1} = {}
            /\ {k \in 1..(n - 1) :
                   \/ chunks[k + 1].start # chunks[k].start + chunks[k].len
                   \/ chunks[k].len # chunk_size
                   \/ chunks[k].len < MIN_CHUNK_SIZE} = {}
            /\ {k \in 1..n :
                   \/ chunks[k].index # k - 1
                   \/ chunks[k].start # ChunkStart(k - 1, chunk_size)
                   \/ chunks[k].len # ChunkLen(repo.len, k - 1, chunk_size)} = {}
            /\ n >= 1 => /\ chunks[n].len <= chunk_size
                         /\ chunks[n].start + chunks[n].len - 1 = call.pos
            /\ pc = "chunked" => /\ call.pos = repo.len
                                 /\ n = NumChunks(repo.len, chunk_size)
                                 /\ n - 1 \in Chunks /\ n \notin Chunks

\* A history cut into chunks larger than the minimum, the last one shorter
\* than the minimum.
C19_Witness ==
    /\ pc = "chunked"
    /\ chunk_size > MIN_CHUNK_SIZE
    /\ Len(call.chunks) > CHUNK_AMOUNT
    /\ call.chunks[Len(call.chunks)].len < MIN_CHUNK_SIZE
    /\ call.chunks[CHUNK_AMOUNT].len = chunk_size


\* The archive as a reader decodes it: the names of its entries in their
\* order, with the count and the entries each holds.
DecodedContainer(entries) ==
    [k \in DOMAIN entries |->
       [name |-> entries[k].name,
        count |-> ReadCountOf(entries[k].data),
        records |-> [j \in 1..(Len(entries[k].data.frames) - 1) |->
                       ReadRecordOf(entries[k].data, j)]]]

\* The archive of the history scanned by one thread, commit by commit.
ExpectedContainer(r) ==
    LET scan == SingleScan(r)
        size == ChunkSize(r.len)
    IN  <<[name |-> InfoName, count |-> Some(r.len), records |-> <<>>]>>
        \o [k \in 1..NumChunks(r.len, size) |->
              [name |-> StatsName(k - 1),
               count |-> Some(ChunkLen(r.len, k - 1, size)),
               records |-> [j \in 1..ChunkLen(r.len, k - 1, size) |->
                              Some(scan[ChunkStart(k - 1, size) + j - 1])]]]

\* The points of the history, one for each commit in the order of the scan.
ExpectedPoints(r, flt) ==
    LET scan == SingleScan(r)
    IN  [k \in 1..r.len |-> SimpleEntry(scan[k], flt)]

\* C20: the results do not depend on the schedule. Whatever the order in
\* which the tasks of the scan take their steps, whatever the order of the
\* directory listing and of the maps' files, the finished archive decodes to
\* the same entries in the same order with the same snapshots: those of the
\* history scanned by one thread. And however load_data splits the archive
\* among its jobs, no split or many, it returns the same points in the same
\* order: those of the commits in the order of the scan.
C20_Deterministic ==
    /\ pc = "done"
          => DecodedContainer(Unwrap(zip_file).entries) = ExpectedContainer(repo)
    /\ pc = "returned"
          => /\ IsOk(result)
             /\ result.ok = ExpectedPoints(repo, filter)

\* The archive of a history of two chunks, written by maps of the reverse
\* order, is being loaded by two jobs: the job of the second chunk has ended
\* with its point while the job of the first chunk is pushing its points.
C20_Witness ==
    /\ pc = "fold"
    /\ hasher # PathSeq
    /\ repo.len = MIN_CHUNK_SIZE + 1
    /\ Len(input) = 3
    /\ DecodedContainer(input) = ExpectedContainer(repo)
    /\ DOMAIN nodes = {Root, <<1, 2>>, <<2, 3>>}
    /\ nodes[<<2, 3>>].st = "ok"
    /\ Len(nodes[<<2, 3>>].list) = 1
    /\ nodes[<<1, 2>>].st = "fold"
    /\ Len(nodes[<<1, 2>>].list) = 2


\* Every zip entry after the header decodes: its count can be read, and so
\* can as many entries as the count states.
ChunksDecode ==
    \A i \in 2..Len(input) :
        /\ IsSome(ReadCountOf(input[i].data))
        /\ \A k \in 1..Unwrap(ReadCountOf(input[i].data)) :
              IsSome(ReadRecordOf(input[i].data, k))

\* C21: on an archive whose zip entries after the header all decode,
\* load_data returns, whatever the header holds; and the progress printer,
\* once started, ends, also when the header differs from the number of
\* entries decoded.
C21_LoadTerminates ==
    /\ (pc = "load" /\ ChunksDecode) ~> (pc = "returned")
    /\ (poller = "polling" /\ ChunksDecode) ~> (poller = "finished")

=============================================================================
